---- MODULE Spec2Model ----
(***************************************************************************)
(* A model of build.js, the works_on_work static site generator.          *)
(*                                                                         *)
(* Text is a sequence of symbols.  A symbol is one character, except that  *)
(* a run of characters nothing in build.js looks into is one symbol: the   *)
(* inside of a placeholder token ("/*__POSTS_JSON__*/" is the three        *)
(* symbols "/", "POSTS", "/"), a property name, the literal null.          *)
(* JSON values are records tagged with their JavaScript type.              *)
(***************************************************************************)
EXTENDS Integers, Sequences, FiniteSets, TLC

VARIABLES
    templates,     \* templates/index.html: [exists, text]
    postsDir,      \* content/posts: [exists, files], files in readdir order
    unlinkedFile,  \* content/unlinked-comments.json: [exists, data]
    aboutFile,     \* content/about.json
    siteFile,      \* content/site.json
    assets,        \* the assets tree: path -> node, the root <<>> when it exists
    cname,         \* the root CNAME file: [exists, text]
    engineThrows,  \* whether the engine's sort calls the comparator with a
                   \* post whose date is no string on the receiver side
    prior,         \* what dist held when the process started
    dist,          \* the output tree: path -> node
    pc,            \* the statement of build() the process is at
    html,          \* build's html
    fileIdx,       \* readPosts: the index of the next directory entry
    posts,         \* injectData's posts (readPosts' array)
    unlinked,      \* injectData's unlinked
    about,         \* injectData's about
    site,          \* injectData's site
    console,       \* the lines written so far: [level, about]
    exitCode,      \* the process's exit status, -1 while it runs
    run,           \* which run of `node build.js` this is, from 1
    firstDist      \* what the first run left in dist, once it has ended

inputs == <<templates, postsDir, unlinkedFile, aboutFile, siteFile, assets,
            cname, engineThrows, prior>>
locals == <<html, fileIdx, posts, unlinked, about, site>>
history == <<run, firstDist>>
vars == <<inputs, dist, pc, locals, console, exitCode, history>>

\* ---------------------------------------------------------------- bounds
\* The most entries content/posts holds.
MaxFiles == 3
\* The most parts (a placeholder token or a filler character) of a template.
MaxTplParts == 3
\* The most runs of the build in a row over the same inputs.
MaxRuns == 2

\* ------------------------------------------------------ JavaScript values
Undefined == [t |-> "undefined"]
JNull == [t |-> "null"]
JStr(s) == [t |-> "string", s |-> s]
JNum(n) == [t |-> "number", n |-> n]
\* f: the properties in insertion order, each <<key, value>>.
JObj(f) == [t |-> "object", f |-> f]
JArr(a) == [t |-> "array", a |-> a]

Throw == [throw |-> TRUE]
Return(v) == [throw |-> FALSE, v |-> v]

\* v.k: a TypeError on null and undefined, undefined when v has no such
\* property.
GetProp(v, k) ==
    IF v.t \in {"null", "undefined"} THEN Throw
    ELSE IF v.t # "object" THEN Return(Undefined)
    ELSE LET hit == {i \in 1..Len(v.f) : v.f[i][1] = k}
         IN  IF hit = {} THEN Return(Undefined)
             ELSE Return(v.f[CHOOSE i \in hit : \A j \in hit : j <= i][2])

Truthy(v) ==
    CASE v.t \in {"undefined", "null"} -> FALSE
      [] v.t = "string" -> v.s # <<>>
      [] v.t = "number" -> v.n # 0
      [] OTHER -> TRUE

\* v || ''
OrEmpty(v) == IF Truthy(v) THEN v ELSE JStr(<<>>)

DigitChars == <<"0", "1", "2", "3", "4", "5", "6", "7", "8", "9">>

RECURSIVE Digits(_)
Digits(n) ==
    IF n < 10 THEN <<DigitChars[n + 1]>>
    ELSE Digits(n \div 10) \o <<DigitChars[(n % 10) + 1]>>

\* ToString(v) of the language (the numbers of the model are naturals).
JSToString(v) ==
    CASE v.t = "string" -> v.s
      [] v.t = "number" -> Digits(v.n)
      [] v.t = "null" -> <<"null">>
      [] v.t = "undefined" -> <<"undefined">>
      [] v.t = "array" -> <<"[array]">>
      [] OTHER -> <<"[object Object]">>

\* The collation order of the characters a date is written with.
Collation == <<"-", "0", "1", "2", "3", "4", "5", "6", "7", "8", "9">>
Rank(c) == CHOOSE i \in 1..Len(Collation) : Collation[i] = c

\* x.localeCompare(y) on two texts: negative, zero or positive.
RECURSIVE LocaleCompare(_, _)
LocaleCompare(x, y) ==
    IF x = <<>> THEN (IF y = <<>> THEN 0 ELSE -1)
    ELSE IF y = <<>> THEN 1
    ELSE IF Rank(Head(x)) < Rank(Head(y)) THEN -1
    ELSE IF Rank(Head(x)) > Rank(Head(y)) THEN 1
    ELSE LocaleCompare(Tail(x), Tail(y))

\* ---------------------------------------------------------- JSON.stringify
IndentWidth == 2

Spaces(n) == [i \in 1..n |-> " "]

RECURSIVE Escape(_)
Escape(s) ==
    IF s = <<>> THEN <<>>
    ELSE IF Head(s) \in {"\"", "\\"} THEN <<"\\", Head(s)>> \o Escape(Tail(s))
    ELSE <<Head(s)>> \o Escape(Tail(s))

Quote(s) == <<"\"">> \o Escape(s) \o <<"\"">>

\* JSON.stringify(v, null, 2) at nesting depth k.
RECURSIVE Stringify(_, _)
RECURSIVE StringifyItems(_, _, _)
RECURSIVE StringifyFields(_, _, _)
StringifyItems(a, i, k) ==
    IF i > Len(a) THEN <<>>
    ELSE (IF i > 1 THEN <<",">> ELSE <<>>) \o <<"\n">>
         \o Spaces(IndentWidth * (k + 1))
         \o (IF a[i].t = "undefined" THEN <<"null">> ELSE Stringify(a[i], k + 1))
         \o StringifyItems(a, i + 1, k)
StringifyFields(f, i, k) ==
    IF i > Len(f) THEN <<>>
    ELSE (IF i > 1 THEN <<",">> ELSE <<>>) \o <<"\n">>
         \o Spaces(IndentWidth * (k + 1))
         \o Quote(<<f[i][1]>>) \o <<":", " ">> \o Stringify(f[i][2], k + 1)
         \o StringifyFields(f, i + 1, k)
Stringify(v, k) ==
    CASE v.t = "string" -> Quote(v.s)
      [] v.t = "number" -> Digits(v.n)
      [] v.t = "array" ->
            IF v.a = <<>> THEN <<"[", "]">>
            ELSE <<"[">> \o StringifyItems(v.a, 1, k) \o <<"\n">>
                 \o Spaces(IndentWidth * k) \o <<"]">>
      [] v.t = "object" ->
            IF v.f = <<>> THEN <<"{", "}">>
            ELSE <<"{">> \o StringifyFields(v.f, 1, k) \o <<"\n">>
                 \o Spaces(IndentWidth * k) \o <<"}">>
      [] OTHER -> <<"null">>

JSONstringify(v) == Stringify(v, 0)

\* ------------------------------------------------- String.prototype.replace
\* The least index at which pat occurs in s, 0 when it does not.
IndexOf(s, pat) ==
    LET at == {i \in 1..(Len(s) - Len(pat) + 1) :
                   SubSeq(s, i, i + Len(pat) - 1) = pat}
    IN  IF at = {} THEN 0 ELSE CHOOSE i \in at : \A j \in at : i <= j

\* The grave accent character (the lexer has no string holding it).
Grave == "grave"

\* GetSubstitution: the replacement text with its $ patterns expanded,
\* taken from one "$" to the next.
RECURSIVE GetSubstitution(_, _, _, _)
GetSubstitution(r, matched, before, after) ==
    LET i == IndexOf(r, <<"$">>)
    IN  IF i = 0 THEN r
        ELSE IF i < Len(r) /\ r[i + 1] \in {"$", "&", Grave, "'"}
        THEN SubSeq(r, 1, i - 1)
             \o (CASE r[i + 1] = "$" -> <<"$">>
                   [] r[i + 1] = "&" -> matched
                   [] r[i + 1] = Grave -> before
                   [] OTHER -> after)
             \o GetSubstitution(SubSeq(r, i + 2, Len(r)), matched, before, after)
        ELSE SubSeq(r, 1, i)
             \o GetSubstitution(SubSeq(r, i + 1, Len(r)), matched, before, after)

\* (a replace of every occurrence, as with a /g pattern)
RECURSIVE StringReplaceAll(_, _, _)
StringReplaceAll(s, pat, r) ==
    LET i == IndexOf(s, pat)
        before == SubSeq(s, 1, i - 1)
        after == SubSeq(s, i + Len(pat), Len(s))
    IN  IF i = 0 THEN s
        ELSE before \o GetSubstitution(r, pat, before, after)
             \o StringReplaceAll(after, pat, r)

\* s.replace(pat, r), pat and r strings: the first occurrence only.
StringReplace(s, pat, r) ==
    LET i == IndexOf(s, pat)
        before == SubSeq(s, 1, i - 1)
        after == SubSeq(s, i + Len(pat), Len(s))
    IN  IF i = 0 THEN s
        ELSE before \o GetSubstitution(r, pat, before, after) \o after

\* ------------------------------------------------------------ the file tree
\* A tree maps each path below its root (the root is <<>>) to a node.
DirNode == [dir |-> TRUE, data |-> <<>>]
FileNode(d) == [dir |-> FALSE, data |-> d]
NoTree == [p \in {} |-> DirNode]

IsPrefix(p, q) == Len(p) <= Len(q) /\ SubSeq(q, 1, Len(p)) = p

existsSync(tree, p) == p \in DOMAIN tree

\* fs.rmSync(p, {recursive: true, force: true})
rmSync(tree, p) == [q \in {r \in DOMAIN tree : ~IsPrefix(p, r)} |-> tree[q]]

\* fs.mkdirSync(p, {recursive: true}): p and the directories above it.
mkdirSync(tree, p) ==
    LET new == {SubSeq(p, 1, n) : n \in 0..Len(p)} \ DOMAIN tree
    IN  [q \in new |-> DirNode] @@ tree

writeFileSync(tree, p, d) == (p :> FileNode(d)) @@ tree

copyFileSync(from, s, tree, d) == (d :> FileNode(from[s].data)) @@ tree

\* The names fs.readdirSync(p) lists.
readdirSync(tree, p) ==
    {q[Len(p) + 1] : q \in {r \in DOMAIN tree : Len(r) = Len(p) + 1 /\ IsPrefix(p, r)}}

\* (cleanDir without the removal)
cleanDirNoRemove(tree) == mkdirSync(tree, <<>>)
cleanDir(tree) ==
    mkdirSync(IF existsSync(tree, <<>>) THEN rmSync(tree, <<>>) ELSE tree, <<>>)

ensureDir(tree, p) == IF ~existsSync(tree, p) THEN mkdirSync(tree, p) ELSE tree

\* copyDirSync(src, dest): src a path of the tree from, dest a path of tree.
RECURSIVE copyDirSync(_, _, _, _)
RECURSIVE CopyEntries(_, _, _, _, _)
CopyEntries(from, s, tree, d, names) ==
    IF names = {} THEN tree
    ELSE LET n == CHOOSE x \in names : TRUE
             sp == Append(s, n)
             dp == Append(d, n)
         IN  CopyEntries(from, s,
                 IF from[sp].dir THEN copyDirSync(from, sp, tree, dp)
                 ELSE copyFileSync(from, sp, tree, dp),
                 d, names \ {n})
\* (a copy of the files of src itself, leaving its subdirectories out)
copyDirSyncFlat(from, s, tree, d) ==
    IF ~existsSync(from, s) THEN tree
    ELSE LET files == {n \in readdirSync(from, s) : ~from[Append(s, n)].dir}
         IN  [p \in {Append(d, n) : n \in files} |->
                 FileNode(from[Append(s, p[Len(p)])].data)]
             @@ ensureDir(tree, d)
copyDirSync(from, s, tree, d) ==
    IF ~existsSync(from, s) THEN tree
    ELSE CopyEntries(from, s, ensureDir(tree, d), d, readdirSync(from, s))

\* ------------------------------------------------------------------ content
\* A JSON file's text is either the text of a value or no JSON at all.
JsonText(v) == [ok |-> TRUE, value |-> v]
Garbage == [ok |-> FALSE]
\* (a parse that yields null where the text is no JSON)
JSONparseLenient(data) == IF data.ok THEN Return(data.value) ELSE Return(JNull)
JSONparse(data) == IF data.ok THEN Return(data.value) ELSE Throw

NoFile == [exists |-> FALSE]
File(d) == [exists |-> TRUE, data |-> d]

\* A directory entry's name: <<stem, extension>>.
EndsWithJson(name) == name[2] = ".json"

\* (a readJSON that returns null where the file does not parse)
readJSONNull(file, fallback) ==
    IF ~file.exists THEN fallback
    ELSE LET r == JSONparse(file.data)
         IN  IF r.throw THEN JNull ELSE r.v

\* readJSON(filePath, fallback)
readJSON(file, fallback) ==
    IF ~file.exists THEN fallback
    ELSE LET r == JSONparse(file.data)
         IN  IF r.throw THEN fallback ELSE r.v

UNLINKED_DEFAULT == JArr(<<>>)
ABOUT_DEFAULT == JObj(<< <<"en", JStr(<<>>)>>, <<"es", JStr(<<>>)>> >>)
SITE_DEFAULT == JObj(<<>>)

\* ------------------------------------------------------------ readPosts' sort
\* (the comparator with a and b exchanged: an ascending sort)
CompareFnAscending(a, b) ==
    LET pb == GetProp(b, "date")
        pa == GetProp(a, "date")
    IN  IF pb.throw \/ pa.throw THEN Throw
        ELSE IF OrEmpty(pa.v).t # "string" THEN Throw
        ELSE Return(LocaleCompare(OrEmpty(pa.v).s, JSToString(OrEmpty(pb.v))))
\* (a, b) => (b.date || '').localeCompare(a.date || '')
CompareFn(a, b) ==
    LET pb == GetProp(b, "date")
        pa == GetProp(a, "date")
    IN  IF pb.throw \/ pa.throw THEN Throw
        ELSE IF OrEmpty(pb.v).t # "string" THEN Throw
        ELSE Return(LocaleCompare(OrEmpty(pb.v).s, JSToString(OrEmpty(pa.v))))

\* The order the comparator gives two elements when the engine asks for it
\* without an exception: CompareFn(a, b), or the opposite of CompareFn(b, a)
\* when only that call returns, or what both of these imply for a pair the
\* engine never compares (the comparator is consistent where it returns).
SortCompare(a, b) ==
    IF ~CompareFn(a, b).throw THEN CompareFn(a, b).v
    ELSE IF ~CompareFn(b, a).throw THEN 0 - CompareFn(b, a).v
    ELSE LocaleCompare(JSToString(OrEmpty(GetProp(b, "date").v)),
                       JSToString(OrEmpty(GetProp(a, "date").v)))

\* (an insertion that lets x pass the elements it ties with: no stable sort)
RECURSIVE InsertSortedUnstable(_, _)
InsertSortedUnstable(s, x) ==
    IF s = <<>> THEN <<x>>
    ELSE IF SortCompare(x, s[Len(s)]) <= 0
         THEN Append(InsertSortedUnstable(SubSeq(s, 1, Len(s) - 1), x), s[Len(s)])
         ELSE Append(s, x)

\* Array.prototype.sort is stable: x, which followed every element of s,
\* goes before y only when the comparator says so.
RECURSIVE InsertSorted(_, _)
InsertSorted(s, x) ==
    IF s = <<>> THEN <<x>>
    ELSE IF SortCompare(x, s[Len(s)]) < 0
         THEN Append(InsertSorted(SubSeq(s, 1, Len(s) - 1), x), s[Len(s)])
         ELSE Append(s, x)

RECURSIVE StableSort(_)
StableSort(a) ==
    IF a = <<>> THEN <<>>
    ELSE InsertSorted(StableSort(SubSeq(a, 1, Len(a) - 1)), a[Len(a)])

\* posts.sort(comparator).  With fewer than two elements the comparator is
\* never called.  Otherwise every element is an argument of some call: an
\* element the comparator throws on in both positions (null) ends the sort;
\* one it throws on only as the receiver (a date that is no string) ends it
\* when the engine puts it there, which engines differ in.
ArraySort(a, receiverProbed) ==
    IF Len(a) < 2 THEN Return(a)
    ELSE IF \E i \in 1..Len(a) : GetProp(a[i], "date").throw THEN Throw
    ELSE IF receiverProbed /\ \E i \in 1..Len(a) : CompareFn(a[i], a[i]).throw
    THEN Throw
    ELSE Return(StableSort(a))

\* --------------------------------------------------------------- injectData
\* The placeholder tokens: "/", the inside of the token, "/".
TOKEN_POSTS == <<"/", "POSTS", "/">>
TOKEN_UNLINKED == <<"/", "UNLINKED", "/">>
TOKEN_ABOUT == <<"/", "ABOUT", "/">>
TOKEN_EMAIL == <<"/", "EMAIL", "/">>
Tokens == {TOKEN_POSTS, TOKEN_UNLINKED, TOKEN_ABOUT, TOKEN_EMAIL}

\* ------------------------------------------------------------------- inputs
RECURSIVE Concat(_)
Concat(ss) == IF ss = <<>> THEN <<>> ELSE Head(ss) \o Concat(Tail(ss))

\* A template is up to MaxTplParts parts, each a token or a filler character.
TplParts == Tokens \cup {<<"x">>}
TemplateTexts ==
    {Concat(ps) : ps \in UNION {[1..n -> TplParts] : n \in 0..MaxTplParts}}

Post(id, date, body) ==
    JObj(<< <<"id", JStr(id)>> >>
         \o (IF date = Undefined THEN <<>> ELSE << <<"date", date>> >>)
         \o << <<"body", JStr(body)>> >>)

Comment(text) == JObj(<< <<"author", JStr(<<"r">>)>>, <<"text", JStr(text)>> >>)

\* What a post's date is: missing, empty, a date, or a number.
DateChoices ==
    {Undefined, JStr(<<>>), JStr(<<"1">>), JStr(<<"1", "2">>), JStr(<<"2">>),
     JNum(2)}

\* What the i-th entry of content/posts is: a file that is no .json file, a
\* .json file that does not parse, the text null, or a post.
EntryChoices(i) ==
    {[name |-> <<DigitChars[i + 1], ".txt">>, data |-> Garbage],
     [name |-> <<DigitChars[i + 1], ".json">>, data |-> Garbage],
     [name |-> <<DigitChars[i + 1], ".json">>, data |-> JsonText(JNull)]}
    \cup {[name |-> <<DigitChars[i + 1], ".json">>,
           data |-> JsonText(Post(<<DigitChars[i + 1]>>, d, <<"x">>))]
            : d \in DateChoices}

\* The listings of n entries.
RECURSIVE Listings(_)
Listings(n) ==
    IF n = 0 THEN {<<>>}
    ELSE {Append(fs, e) : fs \in Listings(n - 1), e \in EntryChoices(n)}

Directories ==
    {[exists |-> TRUE, files |-> fs] :
        fs \in UNION {Listings(n) : n \in 0..MaxFiles}}

\* Texts whose characters String.prototype.replace or JSON.stringify treat
\* specially, and texts that hold a placeholder token.
BodyTexts ==
    {<<"x">>, <<"$", "&">>, <<"$", "$">>, <<"$", "'">>, <<"$", Grave>>,
     <<"\"">>, TOKEN_UNLINKED, TOKEN_EMAIL}

OnePost(body) ==
    [exists |-> TRUE,
     files |-> <<[name |-> <<"1", ".json">>,
                  data |-> JsonText(Post(<<"1">>, JStr(<<"1">>), body))]>>]

\* What a post's slots is: missing, five entries, three entries, a text.
SlotsChoices ==
    {Undefined,
     JArr(<<JArr(<<JStr(<<"t">>)>>), JArr(<<>>), JArr(<<>>), JArr(<<>>),
            JArr(<<>>)>>),
     JArr(<<JArr(<<JStr(<<"t">>)>>), JArr(<<>>), JArr(<<>>)>>),
     JArr(<<>>),
     JStr(<<"t">>)}

\* A directory of one post with the date "1" and the slots given.
SlotsPost(slots) ==
    [exists |-> TRUE,
     files |-> <<[name |-> <<"1", ".json">>,
                  data |-> JsonText(JObj(
                      << <<"id", JStr(<<"1">>)>>, <<"date", JStr(<<"1">>)>> >>
                      \o (IF slots = Undefined THEN <<>>
                          ELSE << <<"slots", slots>> >>)))]>>]

UnlinkedChoices ==
    {NoFile, File(Garbage), File(JsonText(JArr(<<>>))),
     File(JsonText(JArr(<<Comment(<<"c">>)>>)))}
AboutChoices ==
    {NoFile, File(Garbage),
     File(JsonText(JObj(<< <<"en", JStr(<<"a">>)>>, <<"es", JNull>> >>)))}
SiteChoices ==
    {NoFile, File(Garbage), File(JsonText(JNull)), File(JsonText(JObj(<<>>))),
     File(JsonText(JObj(<< <<"contact_email", JStr(<<"m">>)>> >>))),
     File(JsonText(JObj(<< <<"contact_email", JStr(<<"$", "&">>)>> >>))),
     File(JsonText(JObj(<< <<"contact_email", JNum(5)>> >>)))}

FullTemplate ==
    [exists |-> TRUE,
     text |-> TOKEN_POSTS \o <<"x">> \o TOKEN_UNLINKED \o TOKEN_ABOUT
              \o <<"x">> \o TOKEN_EMAIL]

\* What dist holds when the process starts: nothing, an empty directory, an
\* earlier build's output, an earlier build's output and more.
PriorTrees ==
    {NoTree,
     <<>> :> DirNode,
     (<<>> :> DirNode) @@ (<<"index.html">> :> FileNode(<<"o">>)),
     (<<>> :> DirNode) @@ (<<"index.html">> :> FileNode(<<"o">>))
        @@ (<<"CNAME">> :> FileNode(<<"d">>))
        @@ (<<"assets">> :> DirNode)
        @@ (<<"assets", "old.png">> :> FileNode(<<"1">>))
        @@ (<<"stale.txt">> :> FileNode(<<"s">>))}

AssetTrees ==
    {NoTree,
     <<>> :> DirNode,
     (<<>> :> DirNode) @@ (<<"a.png">> :> FileNode(<<"2">>)),
     (<<>> :> DirNode) @@ (<<"img">> :> DirNode),
     (<<>> :> DirNode) @@ (<<"a.png">> :> FileNode(<<"2">>))
        @@ (<<"img">> :> DirNode)
        @@ (<<"img", "b.png">> :> FileNode(<<"3">>))
        @@ (<<"img", "x">> :> DirNode)
        @@ (<<"img", "x", "c.png">> :> FileNode(<<"4">>))}

CnameChoices == {NoFile, File(<<"d">>)}

\* Post files of every kind, under a template that holds the posts token.
InputsPosts ==
    /\ templates = [exists |-> TRUE, text |-> TOKEN_POSTS]
    /\ postsDir \in Directories
    /\ engineThrows \in
           IF \E i \in 1..Len(postsDir.files) :
                  /\ postsDir.files[i].data.ok
                  /\ CompareFn(postsDir.files[i].data.value,
                               postsDir.files[i].data.value) = Throw
                  /\ postsDir.files[i].data.value # JNull
           THEN BOOLEAN ELSE {FALSE}
    /\ unlinkedFile = File(JsonText(JArr(<<>>)))
    /\ aboutFile = NoFile
    /\ siteFile = NoFile
    /\ assets = NoTree
    /\ cname = NoFile
    /\ prior = NoTree

\* Templates of every shape, over data whose text has special characters.
InputsInject ==
    /\ \E t \in TemplateTexts : templates = [exists |-> TRUE, text |-> t]
    /\ \E b \in BodyTexts : postsDir = OnePost(b)
    /\ engineThrows = FALSE
    /\ unlinkedFile = File(JsonText(JArr(<<Comment(<<"c">>)>>)))
    /\ aboutFile = NoFile
    /\ siteFile = File(JsonText(JObj(<< <<"contact_email", JStr(<<"m">>)>> >>)))
    /\ assets = NoTree
    /\ cname = NoFile
    /\ prior = NoTree

\* Singleton documents of every kind.
InputsSingletons ==
    /\ templates \in {FullTemplate, [exists |-> TRUE, text |-> <<"x">>]}
    /\ postsDir = OnePost(<<"x">>)
    /\ engineThrows = FALSE
    /\ unlinkedFile \in UnlinkedChoices
    /\ aboutFile \in AboutChoices
    /\ siteFile \in SiteChoices
    /\ assets = NoTree
    /\ cname = NoFile
    /\ prior = NoTree

\* Posts with slots of every kind.
InputsSlots ==
    /\ templates = [exists |-> TRUE, text |-> TOKEN_POSTS]
    /\ \E sl \in SlotsChoices : postsDir = SlotsPost(sl)
    /\ engineThrows = FALSE
    /\ unlinkedFile = NoFile
    /\ aboutFile = NoFile
    /\ siteFile = NoFile
    /\ assets = NoTree
    /\ cname = NoFile
    /\ prior = NoTree

\* The files around the content: the template, assets, CNAME, an earlier dist.
InputsFiles ==
    /\ templates \in {FullTemplate, NoFile}
    /\ postsDir \in {NoFile, OnePost(<<"x">>)}
    /\ engineThrows = FALSE
    /\ unlinkedFile = NoFile
    /\ aboutFile = NoFile
    /\ siteFile = NoFile
    /\ assets \in AssetTrees
    /\ cname \in CnameChoices
    /\ prior \in PriorTrees

Init ==
    /\ \/ InputsPosts
       \/ InputsInject
       \/ InputsSingletons
       \/ InputsSlots
       \/ InputsFiles
    /\ dist = prior
    /\ pc = "start"
    /\ html = <<>>
    /\ fileIdx = 1
    /\ posts = <<>>
    /\ unlinked = Undefined
    /\ about = Undefined
    /\ site = Undefined
    /\ console = <<>>
    /\ exitCode = -1
    /\ run = 1
    /\ firstDist = NoTree

\* -------------------------------------------------------------------- build
Line(level, about_) == [level |-> level, about |-> about_]

\* An exception nothing catches: the process prints it and exits with 1.
Uncaught ==
    /\ pc' = "crashed"
    /\ exitCode' = 1
    /\ console' = Append(console, Line("error", <<"TypeError">>))

\* (the template check before the cleaning: an abort that leaves dist alone)
CleanDirAfterCheck ==
    /\ pc = "start"
    /\ IF templates.exists
       THEN /\ console' = Append(console, Line("log", <<"build started">>))
            /\ dist' = cleanDir(dist)
            /\ pc' = "check"
            /\ UNCHANGED exitCode
       ELSE /\ console' = Append(console, Line("error", <<"templates/index.html">>))
            /\ exitCode' = 1
            /\ pc' = "exited"
            /\ UNCHANGED dist
    /\ UNCHANGED <<history, inputs, locals>>

\* build(), lines 80-82
CleanDir ==
    /\ pc = "start"
    /\ console' = Append(console, Line("log", <<"build started">>))
    /\ dist' = cleanDir(dist)
    /\ pc' = "check"
    /\ UNCHANGED <<history, inputs, locals, exitCode>>

\* (the abort with process.exit(0))
TemplateMissingExitZero ==
    /\ pc = "check"
    /\ ~templates.exists
    /\ console' = Append(console, Line("error", <<"templates/index.html">>))
    /\ exitCode' = 0
    /\ pc' = "exited"
    /\ UNCHANGED <<history, inputs, locals, dist>>

\* build(), lines 86-89
TemplateMissing ==
    /\ pc = "check"
    /\ ~templates.exists
    /\ console' = Append(console, Line("error", <<"templates/index.html">>))
    /\ exitCode' = 1
    /\ pc' = "exited"
    /\ UNCHANGED <<history, inputs, locals, dist>>

\* (a read of the template that writes it to dist at once)
ReadTemplateWriteFirst ==
    /\ pc = "check"
    /\ templates.exists
    /\ html' = templates.text
    /\ dist' = writeFileSync(dist, <<"index.html">>, templates.text)
    /\ fileIdx' = 1
    /\ posts' = <<>>
    /\ pc' = "readPosts"
    /\ UNCHANGED <<history, inputs, unlinked, about, site, console, exitCode>>

\* build(), line 91, and the entry into injectData and readPosts
ReadTemplate ==
    /\ pc = "check"
    /\ templates.exists
    /\ html' = templates.text
    /\ fileIdx' = 1
    /\ posts' = <<>>
    /\ pc' = "readPosts"
    /\ UNCHANGED <<history, inputs, dist, unlinked, about, site, console, exitCode>>

\* readPosts(), line 49
NoPostsDir ==
    /\ pc = "readPosts"
    /\ ~postsDir.exists
    /\ posts' = <<>>
    /\ pc' = "readUnlinked"
    /\ UNCHANGED <<history, inputs, dist, html, fileIdx, unlinked, about, site, console,
                   exitCode>>

\* readPosts(), lines 51-57: one directory entry
ParsePost ==
    /\ pc = "readPosts"
    /\ postsDir.exists
    /\ fileIdx <= Len(postsDir.files)
    /\ LET f == postsDir.files[fileIdx]
           r == JSONparse(f.data)
       IN  IF ~EndsWithJson(f.name) THEN UNCHANGED <<posts, console>>
           ELSE IF r.throw
           THEN /\ console' = Append(console, Line("warn", f.name))
                /\ UNCHANGED posts
           ELSE /\ posts' = Append(posts, r.v)
                /\ UNCHANGED console
    /\ fileIdx' = fileIdx + 1
    /\ UNCHANGED <<history, inputs, dist, pc, html, unlinked, about, site, exitCode>>

\* readPosts(), lines 58-59
SortPosts ==
    /\ pc = "readPosts"
    /\ postsDir.exists
    /\ fileIdx > Len(postsDir.files)
    /\ LET r == ArraySort(posts, engineThrows)
       IN  IF r.throw THEN Uncaught /\ UNCHANGED posts
           ELSE /\ posts' = r.v
                /\ pc' = "readUnlinked"
                /\ UNCHANGED <<console, exitCode>>
    /\ UNCHANGED <<history, inputs, dist, html, fileIdx, unlinked, about, site>>

\* injectData(), line 64
ReadUnlinked ==
    /\ pc = "readUnlinked"
    /\ unlinked' = readJSON(unlinkedFile, UNLINKED_DEFAULT)
    /\ pc' = "readAbout"
    /\ UNCHANGED <<history, inputs, dist, html, fileIdx, posts, about, site, console,
                   exitCode>>

\* injectData(), line 65
ReadAbout ==
    /\ pc = "readAbout"
    /\ about' = readJSON(aboutFile, ABOUT_DEFAULT)
    /\ pc' = "readSite"
    /\ UNCHANGED <<history, inputs, dist, html, fileIdx, posts, unlinked, site, console,
                   exitCode>>

\* injectData(), lines 66-68
ReadSite ==
    /\ pc = "readSite"
    /\ site' = readJSON(siteFile, SITE_DEFAULT)
    /\ console' = Append(console, Line("log", <<"found">> \o Digits(Len(posts))))
    /\ pc' = "injectPosts"
    /\ UNCHANGED <<history, inputs, dist, html, fileIdx, posts, unlinked, about,
                   exitCode>>

\* injectData(), line 71
InjectPosts ==
    /\ pc = "injectPosts"
    /\ html' = StringReplace(html, TOKEN_POSTS, JSONstringify(JArr(posts)))
    /\ pc' = "injectUnlinked"
    /\ UNCHANGED <<history, inputs, dist, fileIdx, posts, unlinked, about, site, console,
                   exitCode>>

\* injectData(), line 72
InjectUnlinked ==
    /\ pc = "injectUnlinked"
    /\ html' = StringReplace(html, TOKEN_UNLINKED, JSONstringify(unlinked))
    /\ pc' = "injectAbout"
    /\ UNCHANGED <<history, inputs, dist, fileIdx, posts, unlinked, about, site, console,
                   exitCode>>

\* injectData(), line 73
InjectAbout ==
    /\ pc = "injectAbout"
    /\ html' = StringReplace(html, TOKEN_ABOUT, JSONstringify(about))
    /\ pc' = "injectEmail"
    /\ UNCHANGED <<history, inputs, dist, fileIdx, posts, unlinked, about, site, console,
                   exitCode>>

\* site.contact_email || ''
ContactEmail(s) ==
    LET e == GetProp(s, "contact_email")
    IN  IF e.throw THEN Throw ELSE Return(JSToString(OrEmpty(e.v)))

\* injectData(), line 74
InjectEmail ==
    /\ pc = "injectEmail"
    /\ LET e == ContactEmail(site)
       IN  IF e.throw THEN Uncaught /\ UNCHANGED html
           ELSE /\ html' = StringReplace(html, TOKEN_EMAIL, e.v)
                /\ pc' = "write"
                /\ UNCHANGED <<console, exitCode>>
    /\ UNCHANGED <<history, inputs, dist, fileIdx, posts, unlinked, about, site>>

\* (a write that puts the number of the run after the text)
WriteIndexStamped ==
    /\ pc = "write"
    /\ dist' = writeFileSync(dist, <<"index.html">>, html \o Digits(run))
    /\ console' = Append(console, Line("log", <<"index.html">>))
    /\ pc' = "assets"
    /\ UNCHANGED <<history, inputs, locals, exitCode>>

\* build(), lines 93-94
WriteIndex ==
    /\ pc = "write"
    /\ dist' = writeFileSync(dist, <<"index.html">>, html)
    /\ console' = Append(console, Line("log", <<"index.html">>))
    /\ pc' = "assets"
    /\ UNCHANGED <<history, inputs, locals, exitCode>>

\* (a move of the assets tree into dist in place of the copy)
CopyAssetsMove ==
    /\ pc = "assets"
    /\ existsSync(assets, <<>>)
    /\ dist' = copyDirSync(assets, <<>>, dist, <<"assets">>)
    /\ assets' = NoTree
    /\ console' = Append(console, Line("log", <<"assets/">>))
    /\ pc' = "cname"
    /\ UNCHANGED <<history, templates, postsDir, unlinkedFile, aboutFile,
                   siteFile, cname, engineThrows, prior, locals, exitCode>>

\* build(), lines 97-101
CopyAssets ==
    /\ pc = "assets"
    /\ existsSync(assets, <<>>)
    /\ dist' = copyDirSync(assets, <<>>, dist, <<"assets">>)
    /\ console' = Append(console, Line("log", <<"assets/">>))
    /\ pc' = "cname"
    /\ UNCHANGED <<history, inputs, locals, exitCode>>

SkipAssets ==
    /\ pc = "assets"
    /\ ~existsSync(assets, <<>>)
    /\ pc' = "cname"
    /\ UNCHANGED <<history, inputs, locals, dist, console, exitCode>>

\* build(), lines 104-108
CopyCname ==
    /\ pc = "cname"
    /\ cname.exists
    /\ dist' = writeFileSync(dist, <<"CNAME">>, cname.data)
    /\ console' = Append(console, Line("log", <<"CNAME">>))
    /\ pc' = "finish"
    /\ UNCHANGED <<history, inputs, locals, exitCode>>

SkipCname ==
    /\ pc = "cname"
    /\ ~cname.exists
    /\ pc' = "finish"
    /\ UNCHANGED <<history, inputs, locals, dist, console, exitCode>>

\* build(), line 110, and the end of the script
Complete ==
    /\ pc = "finish"
    /\ console' = Append(console, Line("log", <<"Build complete">>))
    /\ exitCode' = 0
    /\ pc' = "done"
    /\ UNCHANGED <<history, inputs, locals, dist>>

Next ==
    \/ CleanDir
    \/ TemplateMissing
    \/ ReadTemplate
    \/ NoPostsDir
    \/ ParsePost
    \/ SortPosts
    \/ ReadUnlinked
    \/ ReadAbout
    \/ ReadSite
    \/ InjectPosts
    \/ InjectUnlinked
    \/ InjectAbout
    \/ InjectEmail
    \/ WriteIndex
    \/ CopyAssets
    \/ SkipAssets
    \/ CopyCname
    \/ SkipCname
    \/ Complete

Spec == Init /\ [][Next]_vars

\* ------------------------------------------------------------ a second run
\* `node build.js` again once the process has ended, over the same sources:
\* a new process, whose dist is what the run before left.
Rebuild ==
    /\ pc \in {"done", "exited", "crashed"}
    /\ run < MaxRuns
    /\ run' = run + 1
    /\ firstDist' = IF run = 1 THEN dist ELSE firstDist
    /\ prior' = dist
    /\ pc' = "start"
    /\ html' = <<>>
    /\ fileIdx' = 1
    /\ posts' = <<>>
    /\ unlinked' = Undefined
    /\ about' = Undefined
    /\ site' = Undefined
    /\ console' = <<>>
    /\ exitCode' = -1
    /\ UNCHANGED <<templates, postsDir, unlinkedFile, aboutFile, siteFile,
                   assets, cname, engineThrows, dist>>

NextRebuild == Next \/ Rebuild

SpecRebuild == Init /\ [][NextRebuild]_vars

\* ------------------------------------------------------------------- claims
PcOrder ==
    <<"start", "check", "readPosts", "readUnlinked", "readAbout", "readSite",
      "injectPosts", "injectUnlinked", "injectAbout", "injectEmail", "write",
      "assets", "cname", "finish", "done">>
Position(p) == CHOOSE i \in 1..Len(PcOrder) : PcOrder[i] = p
\* The process is at statement p or past it (and has not ended abnormally).
Reached(p) == pc \notin {"crashed", "exited"} /\ Position(p) <= Position(pc)

\* The values of the .json entries of content/posts that parse, in
\* directory order.
RECURSIVE LoadedFrom(_)
LoadedFrom(files) ==
    IF files = <<>> THEN <<>>
    ELSE LET f == files[Len(files)]
             rest == LoadedFrom(SubSeq(files, 1, Len(files) - 1))
         IN  IF f.name[2] = ".json" /\ f.data.ok
             THEN Append(rest, f.data.value) ELSE rest
Loaded == IF postsDir.exists THEN LoadedFrom(postsDir.files) ELSE <<>>

\* The `date` property of a post, Undefined when it has none.
DateOf(p) ==
    IF p.t = "object" /\ \E i \in 1..Len(p.f) : p.f[i][1] = "date"
    THEN p.f[CHOOSE i \in 1..Len(p.f) : p.f[i][1] = "date"][2]
    ELSE Undefined

\* The text a post is sorted by: its date, the empty text when it has none.
DateKey(p) ==
    LET d == DateOf(p)
    IN  IF d.t = "string" THEN d.s
        ELSE IF d.t = "number" /\ d.n # 0 THEN Digits(d.n)
        ELSE <<>>

\* x is at most y in the lexicographic order of the collation.
LexLE(x, y) ==
    \E k \in 0..Len(x) :
        /\ k <= Len(y)
        /\ SubSeq(x, 1, k) = SubSeq(y, 1, k)
        /\ \/ k = Len(x)
           \/ k < Len(y) /\ Rank(x[k + 1]) < Rank(y[k + 1])

WithKey(a, k) == LET HasKey(p) == DateKey(p) = k IN SelectSeq(a, HasKey)

\* C1: the array readPosts returns is in descending order of date, and the
\* posts of one date are in the order their files were read.
C1_SortedDescendingStable ==
    Reached("readUnlinked") =>
        /\ \A i, j \in 1..Len(posts) :
               i < j => LexLE(DateKey(posts[j]), DateKey(posts[i]))
        /\ Len(posts) = Len(Loaded)
        /\ \A i \in 1..Len(Loaded) :
               WithKey(posts, DateKey(Loaded[i])) = WithKey(Loaded, DateKey(Loaded[i]))

\* A returned array that the sort reordered and that holds two posts of one
\* date.
C1_Witness ==
    /\ Reached("readUnlinked")
    /\ posts # Loaded
    /\ \E i, j \in 1..Len(posts) :
           i < j /\ DateKey(posts[i]) = DateKey(posts[j]) /\ posts[i] # posts[j]

Count(a, v) == Cardinality({i \in 1..Len(a) : a[i] = v})
Warnings(name) ==
    Cardinality({i \in 1..Len(console) :
                    console[i].level = "warn" /\ console[i].about = name})

\* C7: once readPosts has gone through content/posts, each .json file that
\* does not parse has exactly one warning naming it and no element in the
\* array, and each one that parses is in the array exactly once.
C7_BadFilesSkippedAndWarned ==
    (postsDir.exists /\ Reached("readPosts") /\ fileIdx > Len(postsDir.files)) =>
        /\ \A i \in 1..Len(postsDir.files) :
               LET f == postsDir.files[i]
               IN  /\ (f.name[2] = ".json" /\ ~f.data.ok) => Warnings(f.name) = 1
                   /\ (f.name[2] = ".json" /\ f.data.ok) =>
                          /\ Warnings(f.name) = 0
                          /\ Count(posts, f.data.value) =
                                 Cardinality({j \in 1..Len(postsDir.files) :
                                     /\ postsDir.files[j].name[2] = ".json"
                                     /\ postsDir.files[j].data = f.data})
        /\ Len(posts) =
               Cardinality({j \in 1..Len(postsDir.files) :
                   /\ postsDir.files[j].name[2] = ".json"
                   /\ postsDir.files[j].data.ok})

\* readPosts has returned an array of two posts after skipping a .json file
\* that does not parse.
C7_Witness ==
    /\ postsDir.exists
    /\ Reached("readUnlinked")
    /\ Len(posts) = 2
    /\ \E i \in 1..Len(postsDir.files) :
           /\ postsDir.files[i].name[2] = ".json"
           /\ ~postsDir.files[i].data.ok
           /\ Warnings(postsDir.files[i].name) = 1

NoDate(p) == DateOf(p) \in {Undefined, JNull, JStr(<<>>)}
HasDate(p) ==
    \/ DateOf(p).t = "string" /\ DateOf(p).s # <<>>
    \/ DateOf(p).t = "number" /\ DateOf(p).n # 0

\* C9: in the array readPosts returns, no post without a date (missing or
\* empty) comes before a post with one.
C9_UndatedLast ==
    Reached("readUnlinked") =>
        \A i, j \in 1..Len(posts) :
            (NoDate(posts[i]) /\ HasDate(posts[j])) => j < i

\* A returned array in which a post without a date was read before a post
\* with one.
C9_Witness ==
    /\ Reached("readUnlinked")
    /\ \E i, j \in 1..Len(Loaded) :
           i < j /\ NoDate(Loaded[i]) /\ Loaded[i].t = "object" /\ HasDate(Loaded[j])

\* C5: without templates/index.html the process ends with a non-zero exit
\* status at the template check, and dist holds no file then.
C5_MissingTemplateAborts ==
    ~templates.exists =>
        /\ pc \in {"start", "check", "exited"}
        /\ pc \in {"check", "exited"} => DOMAIN dist = {<<>>}
        /\ pc = "exited" => exitCode # 0 /\ exitCode # -1
        /\ pc # "exited" => exitCode = -1

\* The build has aborted for want of the template, over a dist that held an
\* earlier build's files.
C5_Witness ==
    /\ pc = "exited"
    /\ ~templates.exists
    /\ <<"index.html">> \in DOMAIN prior
    /\ <<"stale.txt">> \in DOMAIN prior

\* C6: with the template there, the build never ends abnormally, whatever
\* the post files and the singleton files hold.
C6_ContentNeverAborts ==
    templates.exists => pc # "crashed" /\ exitCode \in {-1, 0}

\* What a completed build leaves in dist: index.html, the assets tree under
\* assets when there is one, CNAME when there is one.
ExpectedDist ==
    ((<<>> :> DirNode) @@ (<<"index.html">> :> FileNode(html)))
    @@ [p \in {<<"assets">> \o q : q \in DOMAIN assets} |->
            assets[SubSeq(p, 2, Len(p))]]
    @@ (IF cname.exists THEN <<"CNAME">> :> FileNode(cname.data) ELSE NoTree)

\* C10: after a completed build dist holds exactly index.html, the copy of
\* the assets tree and CNAME, whatever it held before.
C10_DistIsExactlyTheBuild ==
    pc = "done" => dist = ExpectedDist

\* A completed build over a dist that held a stale file, a stale asset and
\* an earlier index.html, with assets and CNAME to copy.
C10_Witness ==
    /\ pc = "done"
    /\ <<"stale.txt">> \in DOMAIN prior
    /\ <<"assets", "old.png">> \in DOMAIN prior
    /\ <<"img", "b.png">> \in DOMAIN assets
    /\ cname.exists

\* The text injectData has for a token: the serialization of the value, or
\* the contact e-mail as it is.
Replacement(T) ==
    CASE T = TOKEN_POSTS -> JSONstringify(JArr(posts))
      [] T = TOKEN_UNLINKED -> JSONstringify(unlinked)
      [] T = TOKEN_ABOUT -> JSONstringify(about)
      [] OTHER -> ContactEmail(site).v

\* The text t with the first occurrence of each token not in done replaced
\* by the token's text, every other character as it is in t.
RECURSIVE Substitute(_, _)
Substitute(t, done) ==
    IF t = <<>> THEN <<>>
    ELSE LET hit == {T \in Tokens \ done : IsPrefix(T, t)}
         IN  IF hit = {} THEN <<Head(t)>> \o Substitute(Tail(t), done)
             ELSE LET T == CHOOSE x \in hit : TRUE
                  IN  Replacement(T)
                      \o Substitute(SubSeq(t, Len(T) + 1, Len(t)), done \cup {T})

\* C2: the text injectData returns is the template with the first
\* occurrence of each token replaced by exactly the serialization of its
\* value (the raw contact e-mail for the e-mail token).
C2_InjectsExactSerialization ==
    Reached("write") => html = Substitute(templates.text, {})

\* The replacements of injectData on the template, those of the tokens in
\* skip left out.
Chain(skip) ==
    LET step(h, T) == IF T \in skip THEN h ELSE StringReplace(h, T, Replacement(T))
    IN  step(step(step(step(templates.text, TOKEN_POSTS), TOKEN_UNLINKED),
                  TOKEN_ABOUT), TOKEN_EMAIL)

\* C3: the value of a token the template does not hold is injected nowhere:
\* the output is what the other tokens alone give.
C3_AbsentTokenInjectsNothing ==
    Reached("write") =>
        \A T \in Tokens : IndexOf(templates.text, T) = 0 => html = Chain({T})

Occurrences(s, pat) ==
    Cardinality({i \in 1..(Len(s) - Len(pat) + 1) :
                    SubSeq(s, i, i + Len(pat) - 1) = pat})

\* No injected text holds a "$" or a token.
PlainData ==
    \A T \in Tokens :
        /\ IndexOf(Replacement(T), <<"$">>) = 0
        /\ \A U \in Tokens : IndexOf(Replacement(T), U) = 0

\* C4: injectData takes away at most one occurrence of each token, and
\* where the data holds neither "$" nor a token it replaces the first
\* occurrence of each token and leaves the later ones as they are.
C4_OnlyFirstOccurrence ==
    /\ Reached("readPosts") =>
           \A T \in Tokens :
               Occurrences(templates.text, T) >= 2 =>
                   Occurrences(html, T) + 1 >= Occurrences(templates.text, T)
    /\ (Reached("write") /\ PlainData) =>
           /\ html = Substitute(templates.text, {})
           /\ \A T \in Tokens :
                  Occurrences(templates.text, T) >= 1 =>
                      Occurrences(html, T) = Occurrences(templates.text, T) - 1

\* injectData has returned on a template that holds a token twice, with one
\* occurrence left.
C4_Witness ==
    /\ Reached("write")
    /\ PlainData
    /\ \E T \in Tokens :
           Occurrences(templates.text, T) = 2 /\ Occurrences(html, T) = 1

\* The file is missing or does not parse.
Defaulted(file) == ~file.exists \/ ~file.data.ok

Ended == pc \in {"done", "exited", "crashed"}

\* C11: a second run of the build over the same sources ends with dist as
\* the first run left it: the same paths, the same contents.
C11_SecondRunSameOutput ==
    (run >= 2 /\ Ended) => dist = firstDist

\* A second run has completed, with a template, nested assets and CNAME,
\* over the output of the first.
C11_Witness ==
    /\ run = 2
    /\ pc = "done"
    /\ prior = firstDist
    /\ <<"index.html">> \in DOMAIN prior
    /\ <<"assets", "img", "x", "c.png">> \in DOMAIN dist
    /\ <<"CNAME">> \in DOMAIN dist

\* The `slots` property of a post, Undefined when it has none.
SlotsOf(p) ==
    IF p.t = "object" /\ \E i \in 1..Len(p.f) : p.f[i][1] = "slots"
    THEN p.f[CHOOSE i \in 1..Len(p.f) : p.f[i][1] = "slots"][2]
    ELSE Undefined

\* The post's slots is a sequence of exactly five entries.
FiveSlots(p) == SlotsOf(p).t = "array" /\ Len(SlotsOf(p).a) = 5

\* Every entry of content/posts is a post that has a text for its date.
DatedPostsOnly ==
    /\ postsDir.exists
    /\ \A i \in 1..Len(postsDir.files) :
           /\ postsDir.files[i].data.ok
           /\ postsDir.files[i].data.value.t = "object"
           /\ DateOf(postsDir.files[i].data.value).t = "string"

\* C12: once readPosts has gone through content/posts, each post whose
\* slots is not a sequence of exactly five entries has a warning naming its
\* file, and a build whose posts have no other defect does not abort.
C12_BadSlotsWarned ==
    /\ (postsDir.exists /\ Reached("readUnlinked")) =>
           \A i \in 1..Len(postsDir.files) :
               LET f == postsDir.files[i]
               IN  (/\ f.name[2] = ".json"
                    /\ f.data.ok
                    /\ f.data.value.t = "object"
                    /\ ~FiveSlots(f.data.value)) => Warnings(f.name) >= 1
    /\ (templates.exists /\ DatedPostsOnly /\ ~siteFile.exists) =>
           pc \notin {"crashed", "exited"}

\* The path p of dist is assets or under it.
UnderAssets(p) == p # <<>> /\ p[1] = "assets"

sources ==
    <<templates, postsDir, unlinkedFile, aboutFile, siteFile, assets, cname>>

\* C14: no step of the build, in a run that completes or in one that
\* aborts, changes a file under content/, templates/ or assets/ or the root
\* CNAME file; what a step writes or removes is in dist.
C14_SourcesUntouched ==
    [][UNCHANGED sources]_vars

\* A completed build that read posts and a template and copied an assets
\* tree and CNAME into a dist that did not exist.
C14_Witness ==
    /\ pc = "done"
    /\ prior = NoTree
    /\ postsDir.exists
    /\ existsSync(assets, <<"img", "b.png">>)
    /\ existsSync(dist, <<"assets", "img", "b.png">>)
    /\ cname.exists
    /\ dist[<<"CNAME">>] = FileNode(cname.data)

\* Every entry of content/posts has been gone through.
PostsLoaded == postsDir.exists => fileIdx > Len(postsDir.files)
\* readPosts has returned after its sort.
SortDone == postsDir.exists /\ Reached("readUnlinked")
\* Some singleton document has been read; all of them have.
SingletonLoaded == unlinked # Undefined \/ about # Undefined \/ site # Undefined
SingletonsLoaded == unlinked # Undefined /\ about # Undefined /\ site # Undefined
\* Something has been read: the template, a post file, a singleton.
LoadBegun == html # <<>> \/ fileIdx > 1 \/ posts # <<>> \/ SingletonLoaded
\* A replacement of injectData has been made.
InjectBegun ==
    \/ Reached("injectUnlinked")
    \/ pc = "crashed" /\ SingletonsLoaded
\* index.html has been written by this run.
Written == pc # "start" /\ existsSync(dist, <<"index.html">>)

\* The order of the stages that both readings of the pipeline share: dist is
\* prepared before anything is read, every post file is read before the
\* sort, the sort and every read are over before the first replacement, and
\* index.html is written with the text the last replacement gave.
StagesInOrder ==
    /\ pc = "start" => ~LoadBegun
    /\ LoadBegun => existsSync(dist, <<>>)
    /\ SortDone => PostsLoaded
    /\ InjectBegun => PostsLoaded /\ SingletonsLoaded
    /\ Written =>
           /\ pc \in {"assets", "cname", "finish", "done"}
           /\ dist[<<"index.html">>] = FileNode(html)

C16_CleanedBeforeTemplateCheck ==
    /\ pc = "check" => existsSync(dist, <<>>) /\ readdirSync(dist, <<>>) = {}
    /\ pc = "exited" =>
           /\ existsSync(dist, <<>>)
           /\ dist[<<>>].dir
           /\ readdirSync(dist, <<>>) = {}
           /\ \A p \in DOMAIN prior : p # <<>> => ~existsSync(dist, p)

\* The build has aborted for want of the template over the output of an
\* earlier build (index.html, an asset, CNAME), and dist is empty.
C16_Witness ==
    /\ pc = "exited"
    /\ exitCode = 1
    /\ existsSync(prior, <<"assets", "old.png">>)
    /\ existsSync(prior, <<"CNAME">>)
    /\ dist = (<<>> :> DirNode)

====
